---- MODULE Spec2Model ----
(***************************************************************************)
(* Model of mp3_organizer.py: main() validates the command line, builds an *)
(* MP3Organizer (which creates dest_dir) and calls run(), which walks the  *)
(* source tree with os.path.walk and hands every entry to _walk_callback;  *)
(* matching files go through _add_file.                                    *)
(*                                                                         *)
(* Strings that the code takes apart (tag values, paths, file names) are   *)
(* sequences of one-character strings.  The destination side of the file   *)
(* system is a set of directory nodes and a map from file nodes to         *)
(* contents; a node is the sequence of its path components.  The source    *)
(* tree is a separate read-only listing.  Writes to sys.stdout and         *)
(* sys.stderr are taken to succeed and are appended to `out`.              *)
(***************************************************************************)
EXTENDS Integers, Sequences, FiniteSets, TLC

VARIABLES
    options,      \* what parser.parse_args() returned
    src,          \* the source tree as os.listdir / os.path.isfile show it
    fs,           \* the file system on the destination side
    fs_init,      \* fs as it was before the first invocation (history)
    self,         \* the MP3Organizer instance, NoInstance before __init__
    pc,           \* position in main() / run()
    stack,        \* the frames of os.path.walk
    out,          \* lines written so far
    exit_status,  \* the process's exit status, -1 while it runs
    short_tags,   \* _add_file's local: what the tag lookup found
    tag_value,    \* _add_file's local after line 44
    snaps         \* (fs, counters) at the end of each completed run()

vars == <<options, src, fs, fs_init, self, pc, stack, out, exit_status,
          short_tags, tag_value, snaps>>

(* ------------------------------ bounds --------------------------------- *)
MaxLen == 5        \* longest raw tag value of the bucket-name specification
MaxRuns == 2       \* run() calls on one instance (Spec)

(* ------------------------------ strings -------------------------------- *)
Whitespace == {" ", "\t"}
Unknown == <<"u", "n", "k", "n", "o", "w", "n">>

RECURSIVE StrsUpTo(_, _)
StrsUpTo(chars, n) ==
    IF n = 0 THEN {<<>>}
    ELSE LET shorter == StrsUpTo(chars, n - 1)
         IN  shorter \cup {Append(s, c) : s \in shorter, c \in chars}

\* unicode.split() with no separator: the maximal runs of non-whitespace.
RECURSIVE SplitFrom(_, _, _)
SplitFrom(s, i, word) ==
    IF i > Len(s) THEN (IF word = <<>> THEN <<>> ELSE <<word>>)
    ELSE IF s[i] \in Whitespace
         THEN (IF word = <<>> THEN <<>> ELSE <<word>>) \o SplitFrom(s, i + 1, <<>>)
         ELSE SplitFrom(s, i + 1, Append(word, s[i]))

Split(s) == SplitFrom(s, 1, <<>>)

\* sep.join(words)
RECURSIVE Join(_, _)
Join(sep, words) ==
    IF words = <<>> THEN <<>>
    ELSE IF Len(words) = 1 THEN words[1]
    ELSE words[1] \o sep \o Join(sep, Tail(words))

\* Line 43: short_tags.get(self.tag, [u'unknown']); the lookup of a file that
\* parsed is "absent" or a list of values.
TagList(lookup) == IF lookup.kind = "absent" THEN <<Unknown>> ELSE lookup.vals

\* Mutant of BucketName: every whitespace character becomes an underscore of
\* its own (raw.replace(" ", "_")), runs and ends included.
BucketName_ReplaceEach(raw) ==
    [i \in 1..Len(raw) |-> IF raw[i] \in Whitespace THEN "_" ELSE raw[i]]

\* Line 44, applied to the first value of line 43.
BucketName(raw) == Join(<<"_">>, Split(raw))

(* ------------------------------- paths --------------------------------- *)
Root == <<>>
Parent(node) == IF node = <<>> THEN <<>> ELSE SubSeq(node, 1, Len(node) - 1)

\* posixpath.join(a, b)
PathJoin(a, b) ==
    IF b # <<>> /\ b[1] = "/" THEN b
    ELSE IF a = <<>> \/ a[Len(a)] = "/" THEN a \o b
    ELSE a \o <<"/">> \o b

\* The components of a path, split at every "/" ("/d/a" gives "", "d", "a").
RECURSIVE ComponentsFrom(_, _, _)
ComponentsFrom(p, i, comp) ==
    IF i > Len(p) THEN <<comp>>
    ELSE IF p[i] = "/" THEN <<comp>> \o ComponentsFrom(p, i + 1, <<>>)
    ELSE ComponentsFrom(p, i + 1, Append(comp, p[i]))

Components(p) == ComponentsFrom(p, 1, <<>>)

\* The kernel's path walk from directory `cur`: every component but the last
\* must name an existing directory; the node it ends at may not exist.
RECURSIVE Namei(_, _, _)
Namei(fsys, comps, cur) ==
    IF comps = <<>> THEN [ok |-> TRUE, node |-> cur]
    ELSE IF cur \notin fsys.dirs THEN [ok |-> FALSE, node |-> cur]
    ELSE LET c == Head(comps)
         IN  IF c = <<>> \/ c = <<".">> THEN Namei(fsys, Tail(comps), cur)
             ELSE IF c = <<".", ".">> THEN Namei(fsys, Tail(comps), Parent(cur))
             ELSE Namei(fsys, Tail(comps), Append(cur, c))

\* Paths are absolute here (dest_dir is given as an absolute path).
Lookup(fsys, p) == Namei(fsys, Components(p), Root)

IsDirNode(fsys, node) == node \in fsys.dirs
IsFileNode(fsys, node) == node \in DOMAIN fsys.files

\* A path walk that ended at an existing node, and at a directory.
Found(fsys, r) == r.ok /\ (IsDirNode(fsys, r.node) \/ IsFileNode(fsys, r.node))
FoundDir(fsys, r) == r.ok /\ IsDirNode(fsys, r.node)

\* os.path.exists(p) and os.path.isdir(p)
PathExists(fsys, p) == p # <<>> /\ Found(fsys, Lookup(fsys, p))
PathIsDir(fsys, p) == p # <<>> /\ FoundDir(fsys, Lookup(fsys, p))

RECURSIVE StripSlashes(_)
StripSlashes(p) ==
    IF p # <<>> /\ p[Len(p)] = "/" THEN StripSlashes(SubSeq(p, 1, Len(p) - 1))
    ELSE p

\* os.mkdir: the new directory `last` under the directory the walk `par`
\* ended at.  ok = FALSE stands for the OSError it raises.
MkdirUnder(fsys, par, last) ==
    IF \/ ~FoundDir(fsys, par)
       \/ last \in {<<>>, <<".">>, <<".", ".">>}
       \/ IsDirNode(fsys, Append(par.node, last))
       \/ IsFileNode(fsys, Append(par.node, last))
    THEN [ok |-> FALSE, fs |-> fsys]
    ELSE [ok |-> TRUE, fs |-> [fsys EXCEPT !.dirs = @ \cup {Append(par.node, last)}]]

MkdirComponents(fsys, comps) ==
    MkdirUnder(fsys, Namei(fsys, SubSeq(comps, 1, Len(comps) - 1), Root),
               comps[Len(comps)])

MkdirStripped(fsys, q) ==
    IF q = <<>> THEN [ok |-> FALSE, fs |-> fsys]
    ELSE MkdirComponents(fsys, Components(q))

\* os.mkdir(p): one level only, trailing slashes ignored.
Mkdir(fsys, p) == MkdirStripped(fsys, StripSlashes(p))

\* Whether open(p, 'wb') succeeds, p being where the walk r ended.
CanWrite(fsys, p, r) ==
    /\ p # <<>> /\ r.ok
    /\ ~IsDirNode(fsys, r.node)
    /\ IsDirNode(fsys, Parent(r.node))

\* copyfile: source file f written to path `target`, where the walk r ended.
\* f.deny: the destination volume refuses the write.
WriteFile(fsys, f, target, r) ==
    IF f.deny \/ ~CanWrite(fsys, target, r)
    THEN [ok |-> FALSE, fs |-> fsys, node |-> Root]
    ELSE [ok   |-> TRUE,
          fs   |-> [fsys EXCEPT !.files =
                      [n \in DOMAIN @ \cup {r.node} |->
                          IF n = r.node THEN f.data ELSE @[n]]],
          node |-> r.node]

CopyTo(fsys, f, target) == WriteFile(fsys, f, target, Lookup(fsys, target))

\* shutil.copy(src, dst) of source file f: into dst when dst is a directory,
\* onto dst otherwise.
ShutilCopy(fsys, f, dst) ==
    CopyTo(fsys, f, IF PathIsDir(fsys, dst) THEN PathJoin(dst, f.name) ELSE dst)

(* --------------------------- the organizer ----------------------------- *)
NoInstance ==
    [built |-> FALSE, source_dir |-> "", dest_dir |-> <<>>, tag |-> "",
     copied_files |-> -1, copy_fails |-> -1]

NoPath == [dir |-> "", name |-> <<>>]
NoLookup == [kind |-> "none", vals |-> <<>>]

Line(kind, what, path, dir, n, node) ==
    [kind |-> kind, what |-> what, path |-> path, dir |-> dir, n |-> n,
     node |-> node]

\* Lines 43-44: the bucket name of a file whose tags were read.
TagValueOf(lookup) == BucketName(Head(TagList(lookup)))

\* An exception raised by step `at` of _add_file.
Raised(at, fsys, look, val) ==
    [raised |-> TRUE, at |-> at, fs |-> fsys, short_tags |-> look,
     tag_value |-> val, dir |-> <<>>, node |-> Root]

\* Lines 48-50: cp is what shutil.copy did on the file system fsys.
AfterCopy(f, tv, dir, fsys, cp) ==
    IF ~cp.ok THEN Raised("copy", fsys, f.lookup, tv)
    ELSE [raised |-> FALSE, at |-> "", fs |-> cp.fs, short_tags |-> f.lookup,
          tag_value |-> tv, dir |-> dir, node |-> cp.node]

\* Lines 46-48: mk is what the test of line 46 and os.mkdir did.
AfterMkdir(f, tv, dir, fsys, mk) ==
    IF ~mk.ok THEN Raised("mkdir", fsys, f.lookup, tv)
    ELSE AfterCopy(f, tv, dir, mk.fs, ShutilCopy(mk.fs, f, dir))

\* Lines 46-50 for the bucket directory mp3_file_dest_dir.
PlaceIn(fsys, f, tv, dir) ==
    AfterMkdir(f, tv, dir, fsys,
               IF PathExists(fsys, dir) THEN [ok |-> TRUE, fs |-> fsys]
               ELSE Mkdir(fsys, dir))

\* Lines 45-50 for the bucket name tv.
Place(org, fsys, f, tv) == PlaceIn(fsys, f, tv, PathJoin(org.dest_dir, tv))

\* _add_file(mp3_file), lines 42-50, for source file f on file system fsys.
\* raised = TRUE stands for the exception a step raises; `at` names the step.
AddFile(org, fsys, f) ==
    IF f.lookup.kind = "corrupt" THEN Raised("parse", fsys, NoLookup, <<>>)
    ELSE IF TagList(f.lookup) = <<>> THEN Raised("index", fsys, f.lookup, <<>>)
    ELSE Place(org, fsys, f, TagValueOf(f.lookup))

\* posixpath.splitext on an entry name: the extension starts at the last dot,
\* unless only dots come before it.
LastDot(name) ==
    LET dots == {i \in 1..Len(name) : name[i] = "."}
    IN  IF dots = {} THEN 0 ELSE CHOOSE i \in dots : \A j \in dots : j <= i

SplitExt(name) ==
    LET d == LastDot(name)
    IN  IF d > 0 /\ \E i \in 1..(d - 1) : name[i] # "."
        THEN SubSeq(name, d, Len(name))
        ELSE <<>>

LowerChar(c) ==
    CASE c = "M" -> "m" [] c = "P" -> "p" [] c = "T" -> "t" [] c = "X" -> "x"
      [] OTHER -> c

Lower(s) == [i \in 1..Len(s) |-> LowerChar(s[i])]

\* Mutant of IsCandidate: the extension is compared without .lower().
IsCandidate_CaseSensitive(e) ==
    /\ e.kind = "file"
    /\ LET entry_ext == SplitExt(e.name)
       IN  Len(entry_ext) > 0 /\ entry_ext = <<".", "m", "p", "3">>

\* Lines 67-69: the test an entry must pass to reach _add_file.
IsCandidate(e) ==
    /\ e.kind = "file"
    /\ LET entry_ext == SplitExt(e.name)
       IN  Len(entry_ext) > 0 /\ Lower(entry_ext) = <<".", "m", "p", "3">>

\* _increment_failures, lines 52-54.
IncrementFailures(org) == [org EXCEPT !.copy_fails = @ + 1]

\* The class of the exception each step of _add_file raises.
ExceptionClass(step) ==
    CASE step = "parse" -> "HeaderNotFoundError"
      [] step = "index" -> "IndexError"
      [] step = "mkdir" -> "OSError"
      [] step = "copy"  -> "IOError"
      [] OTHER -> "Exception"

\* Mutant of IsCaught: "except IOError".
IsCaught_IOErrorOnly(cls) == cls \in {"IOError"}

\* Line 72, "except Exception": every class but the three that derive from
\* BaseException directly.
IsCaught(cls) == cls \notin {"KeyboardInterrupt", "SystemExit", "GeneratorExit"}

\* The except clause, lines 72-75, for the exception r that _add_file raised.
HandleException(org, path, r) ==
    [self |-> IncrementFailures(org), fs |-> r.fs,
     out  |-> <<Line("cannot", r.at, path, <<>>, 0, Root)>>,
     short_tags |-> r.short_tags, tag_value |-> r.tag_value,
     propagates |-> FALSE]

\* Lines 70-75: r is what _add_file did.  propagates = TRUE: the exception
\* leaves the callback.
TryAddFile(org, path, r) ==
    IF r.raised /\ IsCaught(ExceptionClass(r.at))
    THEN HandleException(org, path, r)
    ELSE IF r.raised
    THEN [self |-> org, fs |-> r.fs,
          out |-> <<Line("traceback", r.at, path, <<>>, 0, Root)>>,
          short_tags |-> r.short_tags, tag_value |-> r.tag_value,
          propagates |-> TRUE]
    ELSE [self |-> [org EXCEPT !.copied_files = @ + 1], fs |-> r.fs,
          out  |-> <<Line("copied", "", path, r.dir, 0, r.node)>>,
          short_tags |-> r.short_tags, tag_value |-> r.tag_value,
          propagates |-> FALSE]

\* One iteration of the loop of _walk_callback, lines 65-75.
CallbackStep(org, fsys, dir_name, e) ==
    IF ~IsCandidate(e)
    THEN [self |-> org, fs |-> fsys, out |-> <<>>, short_tags |-> short_tags,
          tag_value |-> tag_value, propagates |-> FALSE]
    ELSE TryAddFile(org, [dir |-> dir_name, name |-> e.name], AddFile(org, fsys, e))

(* ------------------------------ main() --------------------------------- *)
valid_tags == {"artist", "album", "year", "genre"}

\* Mutant of ConfigError: the test of line 117 is left out.
ConfigError_NoTagCheck(opts) ==
    IF opts.source_dir = "" THEN "source"
    ELSE IF opts.dest_dir = <<>> THEN "dest"
    ELSE IF opts.tag = "" THEN "tag"
    ELSE ""

\* Lines 100-120: which check rejects the options, "" when none does.  A
\* missing option and an empty one are both "" (both are false in Python).
ConfigError(opts) ==
    IF opts.source_dir = "" THEN "source"
    ELSE IF opts.dest_dir = <<>> THEN "dest"
    ELSE IF opts.tag = "" THEN "tag"
    ELSE IF opts.tag \notin valid_tags THEN "invalid"
    ELSE ""

Main ==
    /\ pc = "main"
    /\ LET err == ConfigError(options)
       IN  IF err # ""
           THEN /\ out' = out \o <<Line("usage", err, NoPath, <<>>, 0, Root),
                                   Line("usage", "help", NoPath, <<>>, 0, Root)>>
                /\ exit_status' = 1
                /\ pc' = "exited"
           ELSE /\ pc' = "construct"
                /\ UNCHANGED <<out, exit_status>>
    /\ UNCHANGED <<options, src, fs, fs_init, self, stack, short_tags,
                   tag_value, snaps>>

\* Lines 30-36: mk is what the test of line 35 and os.mkdir did.
Built(source_dir, dest_dir, tag, mk) ==
    [raised |-> ~mk.ok, fs |-> mk.fs,
     self |-> [built |-> TRUE, source_dir |-> source_dir,
               dest_dir |-> dest_dir, tag |-> tag,
               copied_files |-> 0, copy_fails |-> 0]]

\* Mutant of Init__: the constructor refuses a source_dir it cannot read,
\* before it touches dest_dir.
Init___CheckSource(source_dir, dest_dir, tag, fsys) ==
    IF source_dir \notin src.exists
    THEN Built(source_dir, dest_dir, tag, [ok |-> FALSE, fs |-> fsys])
    ELSE Built(source_dir, dest_dir, tag,
               IF PathExists(fsys, dest_dir) THEN [ok |-> TRUE, fs |-> fsys]
               ELSE Mkdir(fsys, dest_dir))

\* __init__, lines 29-36, as called at lines 122-124.
Init__(source_dir, dest_dir, tag, fsys) ==
    Built(source_dir, dest_dir, tag,
          IF PathExists(fsys, dest_dir) THEN [ok |-> TRUE, fs |-> fsys]
          ELSE Mkdir(fsys, dest_dir))

\* Lines 122-124.  An OSError from os.mkdir is not caught anywhere: the
\* process ends with a traceback.
Construct ==
    /\ pc = "construct"
    /\ \E r \in {Init__(options.source_dir, options.dest_dir, options.tag, fs)} :
          IF r.raised
          THEN /\ exit_status' = 1
               /\ pc' = "exited"
               /\ out' = Append(out, Line("traceback", "mkdir", NoPath, <<>>, 0, Root))
               /\ UNCHANGED <<self, fs>>
          ELSE /\ self' = r.self
               /\ fs' = r.fs
               /\ pc' = "run"
               /\ UNCHANGED <<out, exit_status>>
    /\ UNCHANGED <<options, src, fs_init, stack, short_tags, tag_value, snaps>>

(* ------------------------------- run() --------------------------------- *)
\* os.listdir(dir): the names in listing order, or an os.error.
ListDir(tree, source_dir, dir) ==
    IF source_dir \in tree.exists THEN [ok |-> TRUE, names |-> tree.list[dir]]
    ELSE [ok |-> FALSE, names |-> <<>>]

Frame(dir) == [dir |-> dir, phase |-> "callback", i |-> 1]

\* Mutant of Run: run() starts by setting both counters to 0.
Run_Resetting ==
    /\ pc = "run"
    /\ LET l == ListDir(src, self.source_dir, "top")
       IN  IF l.ok THEN stack' = <<Frame("top")>> /\ pc' = "walk"
           ELSE stack' = <<>> /\ pc' = "summary"
    /\ self' = [self EXCEPT !.copied_files = 0, !.copy_fails = 0]
    /\ UNCHANGED <<options, src, fs, fs_init, out, exit_status, short_tags,
                   tag_value, snaps>>

\* Line 79: os.path.walk enters source_dir; a listdir error ends the walk.
Run ==
    /\ pc = "run"
    /\ LET l == ListDir(src, self.source_dir, "top")
       IN  IF l.ok THEN stack' = <<Frame("top")>> /\ pc' = "walk"
           ELSE stack' = <<>> /\ pc' = "summary"
    /\ UNCHANGED <<options, src, fs, fs_init, self, out, exit_status,
                   short_tags, tag_value, snaps>>

Top == stack[Len(stack)]
Entries == src.list[Top.dir]
SetTop(f) == [stack EXCEPT ![Len(stack)] = f]

\* _walk_callback handles the next entry of the directory being visited.  An
\* exception that leaves the callback leaves run() and main() too.
CallbackEntry ==
    /\ pc = "walk" /\ stack # <<>>
    /\ Top.phase = "callback" /\ Top.i <= Len(Entries)
    /\ \E r \in {CallbackStep(self, fs, Top.dir, Entries[Top.i])} :
           /\ self' = r.self
           /\ fs' = r.fs
           /\ out' = out \o r.out
           /\ short_tags' = r.short_tags
           /\ tag_value' = r.tag_value
           /\ IF r.propagates
              THEN pc' = "exited" /\ exit_status' = 1 /\ stack' = <<>>
              ELSE /\ stack' = SetTop([Top EXCEPT !.i = @ + 1])
                   /\ UNCHANGED <<pc, exit_status>>
    /\ UNCHANGED <<options, src, fs_init, snaps>>

\* _walk_callback returns; os.path.walk starts its loop over the names.
CallbackReturn ==
    /\ pc = "walk" /\ stack # <<>>
    /\ Top.phase = "callback" /\ Top.i > Len(Entries)
    /\ stack' = SetTop([Top EXCEPT !.phase = "recurse", !.i = 1])
    /\ UNCHANGED <<options, src, fs, fs_init, self, pc, out, exit_status,
                   short_tags, tag_value, snaps>>

\* os.path.walk's loop: a name that is a directory is walked, others skipped.
WalkEntry ==
    /\ pc = "walk" /\ stack # <<>>
    /\ Top.phase = "recurse" /\ Top.i <= Len(Entries)
    /\ LET e == Entries[Top.i]
           advanced == SetTop([Top EXCEPT !.i = @ + 1])
       IN  stack' = IF e.kind = "dir" THEN Append(advanced, Frame(e.id))
                    ELSE advanced
    /\ UNCHANGED <<options, src, fs, fs_init, self, pc, out, exit_status,
                   short_tags, tag_value, snaps>>

\* os.path.walk returns from a directory; from the top one, line 79 is done.
WalkReturn ==
    /\ pc = "walk" /\ stack # <<>>
    /\ Top.phase = "recurse" /\ Top.i > Len(Entries)
    /\ stack' = SubSeq(stack, 1, Len(stack) - 1)
    /\ pc' = IF Len(stack) = 1 THEN "summary" ELSE "walk"
    /\ UNCHANGED <<options, src, fs, fs_init, self, out, exit_status,
                   short_tags, tag_value, snaps>>

\* Mutant of SummaryLines: "if self.copy_fails >= 0".
SummaryLines_Always(org) ==
    <<Line("summary_copied", "", NoPath, <<>>, org.copied_files, Root),
      Line("summary_failed", "", NoPath, <<>>, org.copy_fails, Root)>>

\* Lines 80-82.
SummaryLines(org) ==
    <<Line("summary_copied", "", NoPath, <<>>, org.copied_files, Root)>>
    \o (IF org.copy_fails > 0
        THEN <<Line("summary_failed", "", NoPath, <<>>, org.copy_fails, Root)>>
        ELSE <<>>)

Summary ==
    /\ pc = "summary"
    /\ out' = out \o SummaryLines(self)
    /\ snaps' = Append(snaps, [fs |-> fs, copied_files |-> self.copied_files,
                               copy_fails |-> self.copy_fails, out |-> out'])
    /\ pc' = "returned"
    /\ UNCHANGED <<options, src, fs, fs_init, self, stack, exit_status,
                   short_tags, tag_value>>

\* main() returns after line 125: exit status 0.
MainReturn ==
    /\ pc = "returned"
    /\ exit_status' = 0
    /\ pc' = "exited"
    /\ UNCHANGED <<options, src, fs, fs_init, self, stack, out, short_tags,
                   tag_value, snaps>>

\* A caller other than main() invokes run() again on the same instance.
RunAgain ==
    /\ pc = "returned"
    /\ Len(snaps) < MaxRuns
    /\ pc' = "run"
    /\ UNCHANGED <<options, src, fs, fs_init, self, stack, out, exit_status,
                   short_tags, tag_value, snaps>>

\* The program is started a second time with the same command line, on the
\* file system the first invocation left.
MainAgain ==
    /\ pc = "exited" /\ exit_status = 0 /\ Len(snaps) = 1
    /\ pc' = "main"
    /\ self' = NoInstance
    /\ out' = <<>>
    /\ exit_status' = -1
    /\ UNCHANGED <<options, src, fs, fs_init, stack, short_tags, tag_value, snaps>>

\* The same tree with its directories listed in another order.
Reorderings(tree) ==
    {t \in [exists : {tree.exists},
            list : [DOMAIN tree.list ->
                      UNION {{[i \in 1..Len(tree.list[d]) |-> tree.list[d][q[i]]] :
                                q \in Permutations(1..Len(tree.list[d]))} :
                             d \in DOMAIN tree.list}]] :
        \A d \in DOMAIN tree.list :
            /\ Len(t.list[d]) = Len(tree.list[d])
            /\ {t.list[d][i] : i \in 1..Len(t.list[d])}
                 = {tree.list[d][i] : i \in 1..Len(tree.list[d])}}

\* The program is started a second time with the same command line on the
\* file system as it was at first, the source tree listed in another order.
MainReordered ==
    /\ pc = "exited" /\ exit_status = 0 /\ Len(snaps) = 1
    /\ src' \in Reorderings(src) \ {src}
    /\ fs' = fs_init
    /\ pc' = "main"
    /\ self' = NoInstance
    /\ out' = <<>>
    /\ exit_status' = -1
    /\ UNCHANGED <<options, fs_init, stack, short_tags, tag_value, snaps>>

(* ------------------------------ inputs --------------------------------- *)
FileEntry(name, lookup, deny, data) ==
    [kind |-> "file", name |-> name, id |-> "", lookup |-> lookup,
     deny |-> deny, data |-> data]

DirEntry(name, id) ==
    [kind |-> "dir", name |-> name, id |-> id, lookup |-> NoLookup,
     deny |-> FALSE, data |-> ""]

\* Raw tag values: empty, whitespace only, plain, inner and outer whitespace,
\* the parent directory, an absolute path, a value with a path separator.
TagValues ==
    {<<>>, <<" ">>, <<"a">>, <<"a", " ", "a">>, <<" ", "a">>, <<".", ".">>,
     <<"/", "a">>, <<"a", "/", "a">>}

Lookups ==
    {[kind |-> "corrupt", vals |-> <<>>], [kind |-> "absent", vals |-> <<>>],
     [kind |-> "list", vals |-> <<>>]}
    \cup {[kind |-> "list", vals |-> <<v>>] : v \in TagValues}
    \cup {[kind |-> "list", vals |-> <<v, <<"b">>>>] : v \in {<<"a">>}}

Mp3Names == {<<"x", ".", "m", "p", "3">>, <<"x", ".", "M", "P", "3">>}
OtherNames == {<<"x", ".", "t", "x", "t">>, <<"x">>, <<".", "m", "p", "3">>}
SecondNames == {<<"x", ".", "m", "p", "3">>, <<"y", ".", "m", "p", "3">>}

Audio(names, data) ==
    {FileEntry(n, l, FALSE, data) : n \in names, l \in Lookups}
    \cup {FileEntry(n, [kind |-> "absent", vals |-> <<>>], TRUE, data) : n \in names}

FirstFiles ==
    Audio(Mp3Names, "A")
    \cup {FileEntry(n, [kind |-> "absent", vals |-> <<>>], FALSE, "A") : n \in OtherNames}

SecondFiles == Audio(SecondNames, "B")

D1 == DirEntry(<<"d", "1">>, "d1")
D2 == DirEntry(<<"e", ".", "m", "p", "3">>, "d2")

Listing(top, d1, d2) ==
    [d \in {"top", "d1", "d2"} |->
        IF d = "top" THEN top ELSE IF d = "d1" THEN d1 ELSE d2]

\* Two files side by side, one above the other, or in sibling directories.
Listings(a, b) ==
    (IF a.name # b.name THEN {Listing(<<a, b>>, <<>>, <<>>), Listing(<<b, a>>, <<>>, <<>>)}
     ELSE {})
    \cup {Listing(<<a, D1>>, <<b>>, <<>>), Listing(<<D1, a>>, <<b>>, <<>>),
          Listing(<<D1, D2>>, <<a>>, <<b>>), Listing(<<D2, D1>>, <<a>>, <<b>>)}

Trees == {[exists |-> {"/s"}, list |-> l] :
            l \in UNION {Listings(a, b) : a \in FirstFiles, b \in SecondFiles}}

DefaultTree ==
    [exists |-> {"/s"},
     list |-> Listing(<<FileEntry(<<"x", ".", "m", "p", "3">>,
                                  [kind |-> "list", vals |-> <<<<"a">>>>], FALSE, "A"),
                        D1>>,
                      <<FileEntry(<<"y", ".", "m", "p", "3">>,
                                  [kind |-> "absent", vals |-> <<>>], FALSE, "B")>>,
                      <<>>)]

DestD == <<"/", "d">>
DestPD == <<"/", "p", "/", "d">>

OptionSets ==
    [source_dir : {"", "/s", "/n"}, dest_dir : {<<>>, DestD, DestPD},
     tag : {"", "composer", "artist", "album", "year", "genre"}]

EmptyFs == [dirs |-> {Root}, files |-> <<>>]
FsWithDest == [dirs |-> {Root, <<<<"d">>>>}, files |-> <<>>]

InitCommon ==
    /\ fs = fs_init
    /\ self = NoInstance
    /\ pc = "main"
    /\ stack = <<>>
    /\ out = <<>>
    /\ exit_status = -1
    /\ short_tags = NoLookup
    /\ tag_value = <<>>
    /\ snaps = <<>>

Init ==
    /\ fs_init \in {EmptyFs, FsWithDest}
    /\ \/ options \in OptionSets /\ src = DefaultTree
       \/ /\ options = [source_dir |-> "/s", dest_dir |-> DestD, tag |-> "artist"]
          /\ src \in Trees
    /\ InitCommon

Step ==
    \/ Main
    \/ Construct
    \/ Run
    \/ CallbackEntry
    \/ CallbackReturn
    \/ WalkEntry
    \/ WalkReturn
    \/ Summary
    \/ MainReturn

Next == Step \/ RunAgain

Spec == Init /\ [][Next]_vars

NextIdem == Step \/ MainAgain

SpecIdem == Init /\ [][NextIdem]_vars

NextOrder == Step \/ MainReordered

SpecOrder == Init /\ [][NextOrder]_vars

(* ---------------- the bucket name as a function of the tag ------------- *)
BucketChars == {"a", "_", " ", "\t", "/"}

InitBucket ==
    /\ short_tags \in {[kind |-> "absent", vals |-> <<>>]}
          \cup {[kind |-> "list", vals |-> <<v>>] : v \in StrsUpTo(BucketChars, MaxLen)}
    /\ tag_value = <<>>
    /\ pc = "bucket"
    /\ options = [source_dir |-> "/s", dest_dir |-> DestD, tag |-> "artist"]
    /\ src = DefaultTree
    /\ fs_init = FsWithDest
    /\ fs = fs_init
    /\ self = NoInstance
    /\ stack = <<>>
    /\ out = <<>>
    /\ exit_status = -1
    /\ snaps = <<>>

\* Lines 43-44 on their own.
ComputeBucket ==
    /\ pc = "bucket"
    /\ tag_value' = TagValueOf(short_tags)
    /\ pc' = "bucket_done"
    /\ UNCHANGED <<options, src, fs, fs_init, self, stack, out, exit_status,
                   short_tags, snaps>>

SpecBucket == InitBucket /\ [][ComputeBucket]_vars

(* ============================== claims ================================= *)

(* ------------------------------- C3 ------------------------------------ *)
IsSpace(c) == c \in Whitespace
Ink(s) == {i \in 1..Len(s) : ~IsSpace(s[i])}
FirstInk(s) == CHOOSE i \in Ink(s) : \A j \in Ink(s) : i <= j
LastInk(s) == CHOOSE i \in Ink(s) : \A j \in Ink(s) : j <= i

\* s with every run of whitespace replaced by one underscore.
RECURSIVE Collapse(_)
Collapse(s) ==
    IF s = <<>> THEN <<>>
    ELSE IF ~IsSpace(s[Len(s)]) THEN Append(Collapse(SubSeq(s, 1, Len(s) - 1)), s[Len(s)])
    ELSE IF Len(s) > 1 /\ IsSpace(s[Len(s) - 1]) THEN Collapse(SubSeq(s, 1, Len(s) - 1))
    ELSE Append(Collapse(SubSeq(s, 1, Len(s) - 1)), "_")

\* s without its leading and trailing whitespace.
Trim(s) == IF Ink(s) = {} THEN <<>> ELSE SubSeq(s, FirstInk(s), LastInk(s))

\* s with only its internal runs replaced: whitespace before the first and
\* after the last non-whitespace character stays as it is.
CollapseInner(s) ==
    IF Ink(s) = {} THEN s
    ELSE SubSeq(s, 1, FirstInk(s) - 1) \o Collapse(Trim(s))
         \o SubSeq(s, LastInk(s) + 1, Len(s))

\* C3 as stated: the bucket name is "unknown" when the attribute is absent,
\* and otherwise the raw value with each internal run of whitespace replaced
\* by one underscore and nothing else changed.
C3_BucketIsRawWithInnerRuns ==
    pc = "bucket_done" =>
        tag_value = IF short_tags.kind = "absent" THEN Unknown
                    ELSE CollapseInner(short_tags.vals[1])

\* C3 as amended: the bucket name is "unknown" when the attribute is absent,
\* and otherwise the raw value without its leading and trailing whitespace and
\* with each remaining run of whitespace replaced by one underscore; the
\* characters that are not whitespace are kept, in order.
C3_BucketIsTrimmedCollapsed ==
    pc = "bucket_done" =>
        /\ tag_value = IF short_tags.kind = "absent" THEN Unknown
                       ELSE Collapse(Trim(short_tags.vals[1]))
        /\ short_tags.kind = "list" =>
              SelectSeq(tag_value, LAMBDA c : c # "_")
                = SelectSeq(short_tags.vals[1], LAMBDA c : ~IsSpace(c) /\ c # "_")

\* A value with leading whitespace and an internal run of two whitespace
\* characters has been turned into a bucket name.
C3_Witness ==
    /\ pc = "bucket_done"
    /\ short_tags = [kind |-> "list", vals |-> <<<<" ", "a", "\t", " ", "a">>>>]
    /\ tag_value = <<"a", "_", "a">>

(* ------------------- what a run is expected to visit ------------------- *)
Indices(l, kind) == {i \in 1..Len(l) : l[i].kind = kind}

RECURSIVE Reach(_, _)
Reach(tree, n) ==
    IF n = 0 THEN {"top"}
    ELSE LET r == Reach(tree, n - 1)
         IN  r \cup UNION {{tree.list[d][i].id : i \in Indices(tree.list[d], "dir")} :
                             d \in r}

VisitedDirs(tree) == Reach(tree, Cardinality(DOMAIN tree.list))

\* A name with an extension that is ".mp3" in any mix of cases (a name made of
\* dots up to its last dot has no extension).
HasMp3Extension(name) ==
    /\ Len(name) > 4
    /\ SubSeq(name, Len(name) - 3, Len(name))
         \in {<<".", m, p, "3">> : m \in {"m", "M"}, p \in {"p", "P"}}
    /\ \E i \in 1..(Len(name) - 4) : name[i] # "."

\* The regular files with an mp3 extension that a walk of source_dir meets.
Mp3Paths(tree, source_dir) ==
    IF source_dir \notin tree.exists THEN {}
    ELSE UNION {{[dir |-> d, name |-> tree.list[d][i].name] :
                   i \in {j \in Indices(tree.list[d], "file") :
                            HasMp3Extension(tree.list[d][j].name)}} :
                d \in VisitedDirs(tree)}

EntryAt(tree, path) ==
    LET l == tree.list[path.dir]
    IN  l[CHOOSE i \in 1..Len(l) : l[i].name = path.name]

AtCallbackEntry ==
    /\ pc = "walk" /\ stack # <<>>
    /\ Top.phase = "callback" /\ Top.i <= Len(Entries)

PerFileLines(lines) == SelectSeq(lines, LAMBDA l : l.kind \in {"copied", "cannot"})

(* ------------------------------- C1 ------------------------------------ *)
C1_AtFinish ==
    \A k \in 1..Len(snaps) :
        snaps[k].copied_files + snaps[k].copy_fails
          = k * Cardinality(Mp3Paths(src, options.source_dir))

C1_EachEntry ==
    IF AtCallbackEntry /\ Entries[Top.i].kind = "file"
         /\ HasMp3Extension(Entries[Top.i].name)
    THEN \/ /\ self'.copied_files = self.copied_files + 1
            /\ self'.copy_fails = self.copy_fails
         \/ /\ self'.copied_files = self.copied_files
            /\ self'.copy_fails = self.copy_fails + 1
    ELSE (self.built /\ self'.built) =>
            /\ self'.copied_files = self.copied_files
            /\ self'.copy_fails = self.copy_fails

\* C1: when run() finishes, copied_files + copy_fails is the number of regular
\* files visited whose extension is ".mp3" in any case (once per run() on the
\* instance); handling such a file adds 1 to exactly one counter, and no other
\* entry or step changes a counter.
C1_CountsMp3Files == [](C1_AtFinish) /\ [][C1_EachEntry]_vars

\* A run has finished on a tree with an upper-case "x.MP3" that was copied, a
\* second mp3 file that failed and the directory "e.mp3".
C1_Witness ==
    /\ pc = "returned" /\ Len(snaps) = 1
    /\ self.copied_files = 1 /\ self.copy_fails = 1
    /\ src.list["d1"] # <<>> /\ src.list["d2"] # <<>>
    /\ src.list["d1"][1].name = <<"x", ".", "M", "P", "3">>
    /\ \E i \in 1..Len(out) : out[i].kind = "copied" /\ out[i].path.dir = "d1"

(* ------------------------------- C2 ------------------------------------ *)
C2_NoEscape == self.built => exit_status \in {-1, 0}

C2_AllHandled ==
    \A k \in 1..Len(snaps) :
        \A path \in Mp3Paths(src, options.source_dir) :
            Len(SelectSeq(PerFileLines(snaps[k].out), LAMBDA l : l.path = path)) = k

C2_FailureStep ==
    (/\ AtCallbackEntry
     /\ Entries[Top.i].kind = "file" /\ HasMp3Extension(Entries[Top.i].name)
     /\ AddFile(self, fs, Entries[Top.i]).raised)
    => /\ self'.copy_fails = self.copy_fails + 1
       /\ self'.copied_files = self.copied_files
       /\ pc' = "walk" /\ exit_status' = exit_status
       /\ Len(stack') = Len(stack)
       /\ stack'[Len(stack')] = [Top EXCEPT !.i = @ + 1]

\* C2: run() never ends by an exception; a failure of _add_file on a file
\* (reading its tags, creating the bucket directory or copying) adds 1 to
\* copy_fails, leaves copied_files alone and moves on to the next entry; at
\* the end every mp3 file of the tree has had its line.
C2_FailuresAbsorbed ==
    [](C2_NoEscape /\ C2_AllHandled) /\ [][C2_FailureStep]_vars

\* A run has finished in which a file failed and a later file was copied.
C2_Witness ==
    /\ pc = "returned" /\ Len(snaps) = 1
    /\ \E i, j \in 1..Len(out) :
          /\ i < j
          /\ out[i].kind = "cannot" /\ out[i].what = "mkdir"
          /\ out[j].kind = "copied"

(* ------------------------------- C4 ------------------------------------ *)
DestNode == <<<<"d">>>>

\* C4: every file reported as copied lies at dest_dir/bucket/<file name>, one
\* level below dest_dir in the directory named after its bucket.
C4_CopiedIntoBucket ==
    \A i \in 1..Len(out) :
        out[i].kind = "copied" =>
            LET e == EntryAt(src, out[i].path)
            IN  out[i].node = DestNode \o <<TagValueOf(e.lookup), e.name>>

(* ------------------------------- C5 ------------------------------------ *)
Rejected(opts) ==
    \/ opts.source_dir = "" \/ opts.dest_dir = <<>> \/ opts.tag = ""
    \/ opts.tag \notin {"artist", "album", "year", "genre"}

\* C5: with a required option missing or a tag outside artist, album, year,
\* genre, main() exits with a nonzero status, no MP3Organizer is built, the
\* file system stays as it was and nothing is traversed or copied.
C5_RejectedBeforeConstruction ==
    Rejected(options) =>
        /\ pc \in {"main", "exited"}
        /\ pc = "exited" => exit_status > 0
        /\ self = NoInstance
        /\ fs = fs_init
        /\ stack = <<>> /\ snaps = <<>>
        /\ \A i \in 1..Len(out) : out[i].kind = "usage"

\* main() has exited on --tag composer, both directories given, and dest_dir
\* still does not exist.
C5_Witness ==
    /\ pc = "exited" /\ exit_status = 1
    /\ options = [source_dir |-> "/s", dest_dir |-> DestD, tag |-> "composer"]
    /\ fs = EmptyFs
    /\ out[1].what = "invalid"

(* ------------------------------- C6 ------------------------------------ *)
SourceMissing ==
    ~Rejected(options) /\ options.source_dir \notin src.exists

C7_SecondRunSame ==
    Len(snaps) = 2 =>
        /\ snaps[2].fs = snaps[1].fs
        /\ PerFileLines(snaps[2].out) = PerFileLines(snaps[1].out)

(* ------------------------------- C8 ------------------------------------ *)
\* C8: visiting the entries of the same tree in another order ends with the
\* same counters and the same destination tree.
C8_OrderIrrelevant ==
    Len(snaps) = 2 =>
        /\ snaps[2].fs = snaps[1].fs
        /\ snaps[2].copied_files = snaps[1].copied_files
        /\ snaps[2].copy_fails = snaps[1].copy_fails

(* ------------------------------- C9 ------------------------------------ *)
IsSummary(l) == l.kind \in {"summary_copied", "summary_failed"}

\* The lines of run k alone.
LinesOfRun(k) ==
    SubSeq(snaps[k].out, (IF k = 1 THEN 0 ELSE Len(snaps[k - 1].out)) + 1,
           Len(snaps[k].out))

C9_RunOutput(k) ==
    LET lines == LinesOfRun(k)
        files == PerFileLines(lines)
        tail  == SubSeq(lines, Len(files) + 1, Len(lines))
    IN  /\ SubSeq(lines, 1, Len(files)) = files
        /\ tail # <<>>
        /\ tail[1].kind = "summary_copied" /\ tail[1].n = snaps[k].copied_files
        /\ IF snaps[k].copy_fails > 0
           THEN /\ Len(tail) = 2
                /\ tail[2].kind = "summary_failed"
                /\ tail[2].n = snaps[k].copy_fails
           ELSE Len(tail) = 1

C9_NoneWhileWalking ==
    pc \in {"run", "walk", "summary"} =>
        \A i \in 1..Len(out) :
            IsSummary(out[i]) => Len(snaps) > 0 /\ i <= Len(snaps[Len(snaps)].out)

\* C9: the summary comes after every per-file line of the run; its "Copied N
\* files" line is always there with N the final copied_files, and its "Failed
\* to copy M files" line is there exactly when the final copy_fails M is
\* above 0.
C9_SummaryAfterTraversal ==
    /\ C9_NoneWhileWalking
    /\ \A k \in 1..Len(snaps) : C9_RunOutput(k)
    /\ pc = "returned" =>
          /\ snaps[Len(snaps)].out = out
          /\ snaps[Len(snaps)].copied_files = self.copied_files
          /\ snaps[Len(snaps)].copy_fails = self.copy_fails

\* A run with one file copied and one failed has printed both summary lines.
C9_Witness ==
    /\ pc = "returned" /\ Len(snaps) = 1
    /\ self.copied_files = 1 /\ self.copy_fails = 1
    /\ Len(out) = 4
    /\ out[3].kind = "summary_copied" /\ out[4].kind = "summary_failed"

(* ------------------------------- C10 ----------------------------------- *)
CountLines(lines, kind) == Len(SelectSeq(lines, LAMBDA l : l.kind = kind))

C10_Cumulative ==
    \A k \in 1..Len(snaps) :
        LET before == IF k = 1 THEN [copied_files |-> 0, copy_fails |-> 0]
                      ELSE snaps[k - 1]
            lines  == LinesOfRun(k)
        IN  /\ snaps[k].copied_files
                 = before.copied_files + CountLines(lines, "copied")
            /\ snaps[k].copy_fails = before.copy_fails + CountLines(lines, "cannot")
            /\ \E i \in 1..Len(lines) :
                  lines[i].kind = "summary_copied" /\ lines[i].n = snaps[k].copied_files
            /\ snaps[k].copy_fails > 0 =>
                  \E i \in 1..Len(lines) :
                     lines[i].kind = "summary_failed" /\ lines[i].n = snaps[k].copy_fails

C10_Monotone ==
    /\ (~self.built /\ self'.built) =>
          self'.copied_files = 0 /\ self'.copy_fails = 0
    /\ (self.built /\ self'.built) =>
          /\ self'.copied_files >= self.copied_files
          /\ self'.copy_fails >= self.copy_fails

\* C10: the counters are 0 after construction and never go down; a second
\* run() on the same instance adds its counts to those of the first, and its
\* summary reports the totals of both runs.
C10_CountersAccumulate == [](C10_Cumulative) /\ [][C10_Monotone]_vars

\* A second run() on the same instance has finished: one file copied and one
\* failed in each traversal, totals of 2 and 2 reported.
C10_Witness ==
    /\ pc = "returned" /\ Len(snaps) = 2
    /\ snaps[1].copied_files = 1 /\ snaps[1].copy_fails = 1
    /\ self.copied_files = 2 /\ self.copy_fails = 2
    /\ out[Len(out)].kind = "summary_failed" /\ out[Len(out)].n = 2
====
